---------------------------- MODULE Spec2Model ----------------------------
(***************************************************************************)
(* A model of spades_runner.py: the command builder make_spades_cmd, the   *)
(* initial-run driver spades_initial, the redo driver rerun_spades and the *)
(* top-level control main, together with the part of the working          *)
(* directory they read and write and the external parallel utility, which  *)
(* is an environment that may leave each gene directory in any state.      *)
(*                                                                         *)
(* File contents are sequences of one-character strings, so that writing a *)
(* list with "\n".join and reading it back line by line are modelled by    *)
(* what they do.  Command lines are sequences of string tokens.            *)
(***************************************************************************)
EXTENDS Integers, Sequences, FiniteSets, TLC

(***************************************************************************)
(* Bounds of the model.                                                    *)
(***************************************************************************)
\* The longest gene list given on a gene-list file.
MaxGenes == 2

\* The names a gene may have (sequences of characters); the empty name is
\* what a blank line of a gene-list file yields.
GeneNames == {<<>>, <<"g">>, <<"h">>}

\* The k-mer values the assembler may have attempted for a gene.
Kmers == {21, 33, 55}

\* The states in which a file may be found.
FileStates == {"absent", "empty", "nonempty"}

(***************************************************************************)
(* Program constants.                                                      *)
(***************************************************************************)
\* cov_cutoff=8, the default of rerun_spades and of --cov_cutoff.
DefaultCovCutoff == 8

NL == "\n"

\* The characters str.rstrip() removes (those that occur in the model).
Whitespace == {NL, " "}

\* An optional value: None, or Some(v).
None == [some |-> FALSE]
Some(v) == [some |-> TRUE, val |-> v]

(***************************************************************************)
(* Strings, lists and files.                                               *)
(***************************************************************************)
Range(s) == {s[i] : i \in DOMAIN s}

\* Sequences over S of length lo..hi.
SeqsOf(S, lo, hi) == UNION {[1..n -> S] : n \in lo..hi}

Digit == <<"0", "1", "2", "3", "4", "5", "6", "7", "8", "9">>

\* "{}".format(n) and str(n) of an integer: its decimal digits.
RECURSIVE Dec(_)
Dec(n) ==
    IF n < 0 THEN "-" \o Dec(0 - n)
    ELSE IF n < 10 THEN Digit[n + 1]
    ELSE Dec(n \div 10) \o Digit[(n % 10) + 1]

\* sep.join(strs) on strings.
RECURSIVE JoinStr(_, _)
JoinStr(sep, strs) ==
    IF Len(strs) = 0 THEN ""
    ELSE IF Len(strs) = 1 THEN strs[1]
    ELSE strs[1] \o sep \o JoinStr(sep, Tail(strs))

\* "\n".join(names) as file content: the names' characters with one
\* newline between two names, and none after the last.
RECURSIVE JoinLines(_)
JoinLines(names) ==
    IF Len(names) = 0 THEN <<>>
    ELSE IF Len(names) = 1 THEN names[1]
    ELSE names[1] \o <<NL>> \o JoinLines(Tail(names))

\* The index of the first newline of content, 0 when it has none.
FirstNL(content) ==
    IF \E i \in DOMAIN content : content[i] = NL
    THEN CHOOSE i \in DOMAIN content :
            content[i] = NL /\ \A j \in 1..(i - 1) : content[j] # NL
    ELSE 0

\* Iterating an open text file: its lines, each with its newline, the last
\* one maybe without; an empty file has no line.
RECURSIVE FileLines(_)
FileLines(content) ==
    IF Len(content) = 0 THEN <<>>
    ELSE IF FirstNL(content) = 0 THEN <<content>>
    ELSE <<SubSeq(content, 1, FirstNL(content))>>
            \o FileLines(SubSeq(content, FirstNL(content) + 1, Len(content)))

\* str.rstrip().
RECURSIVE RStrip(_)
RStrip(s) ==
    IF Len(s) > 0 /\ s[Len(s)] \in Whitespace
    THEN RStrip(SubSeq(s, 1, Len(s) - 1))
    ELSE s

\* genes = [x.rstrip() for x in open(genelist)]
ReadGenes(content) ==
    [i \in 1..Len(FileLines(content)) |-> RStrip(FileLines(content)[i])]

\* sorted(S) of a set of integers, ascending.
RECURSIVE SortedSeq(_)
SortedSeq(S) ==
    IF S = {} THEN <<>>
    ELSE LET m == CHOOSE x \in S : \A y \in S : x <= y
         IN  <<m>> \o SortedSeq(S \ {m})

\* Whether the token sequence cmd holds flag directly followed by value.
HasFragment(cmd, flag, value) ==
    \E i \in 1..(Len(cmd) - 1) : cmd[i] = flag /\ cmd[i + 1] = value

HasToken(cmd, tok) == \E i \in DOMAIN cmd : cmd[i] = tok


\* A text file holding one name per line, each line ended by a newline.
RECURSIVE TextFile(_)
TextFile(names) ==
    IF Len(names) = 0 THEN <<>>
    ELSE names[1] \o <<NL>> \o TextFile(Tail(names))

(***************************************************************************)
(* make_spades_cmd: the command line of the initial pass, as tokens.       *)
(***************************************************************************)
\* "if cpu:" is taken when cpu is neither None nor 0.
CpuGiven(cpu) == cpu.some /\ cpu.val # 0

\* "if kvals: kvals = ','.join(kvals)": kvals after line 18.
JoinedKvals(kvals) ==
    IF kvals.some /\ Len(kvals.val) > 0
    THEN Some(JoinStr(",", kvals.val))
    ELSE kvals

\* The second "if kvals:" tests the value line 18 has left in kvals: None,
\* an empty list and an empty string are all false.
KvalsGiven(kvals) ==
    JoinedKvals(kvals).some /\ Len(JoinedKvals(kvals).val) > 0

FileFlag(paired) == IF paired THEN "--12" ELSE "-s"

make_spades_cmd(genelist, cov_cutoff, cpu, paired, kvals) ==
    <<"time", "parallel">>
    \o (IF CpuGiven(cpu) THEN <<"-j", Dec(cpu.val)>> ELSE <<>>)
    \o <<"--eta", "spades.py", "--only-assembler">>
    \o (IF KvalsGiven(kvals) THEN <<"-k", JoinedKvals(kvals).val>> ELSE <<>>)
    \o <<"--threads", "1", "--cov-cutoff", Dec(cov_cutoff), FileFlag(paired),
         "{}/{}_interleaved.fasta", "-o", "{}/{}_spades", "::::", genelist,
         ">", "spades.log">>

(***************************************************************************)
(* rerun_spades: the restart command of one gene and the command that runs *)
(* the command file.                                                       *)
(***************************************************************************)
\* all_kmers of a directory listing, sorted (lines 73-74).
AllKmers(kdirs) == SortedSeq(kdirs)

\* redo_kmers = [str(x) for x in all_kmers[:-1]] (line 82).
RedoKmers(all_kmers) ==
    [i \in 1..(Len(all_kmers) - 1) |-> Dec(all_kmers[i])]

\* restart_k = "k{}".format(redo_kmers[-1]) (line 83).
RestartK(redo_kmers) == "k" \o redo_kmers[Len(redo_kmers)]

\* The line written to redo_spades_commands.txt for a gene (lines 82-86):
\* its tokens up to -o, and the gene whose directory follows -o.
RestartCmd(gene, kdirs, cov_cutoff) ==
    [argv |-> <<"spades.py", "--restart-from",
                RestartK(RedoKmers(AllKmers(kdirs))),
                "-k", JoinStr(",", RedoKmers(AllKmers(kdirs))),
                "--threads", "1", "--cov-cutoff", Dec(cov_cutoff), "-o">>,
     gene |-> gene]

\* redo_spades_cmd (lines 89-92).
RedoSpadesCmd(cpu) ==
    <<"parallel">>
    \o (IF CpuGiven(cpu) THEN <<"-j", Dec(cpu.val)>> ELSE <<>>)
    \o <<"--eta", "::::", "redo_spades_commands.txt", ">", "spades_redo.log">>

(***************************************************************************)
(* The state: the command line, the working directory, the locals of the   *)
(* three functions, and a record of what was run.                          *)
(***************************************************************************)
VARIABLES
    args,           \* the parsed command line (line 134)
    genelist_txt,   \* content of the gene-list file args.genelist
    failed_txt,     \* failed_spades.txt: [exists, content]
    redo_cmds,      \* redo_spades_commands.txt: [state, lines]
    duds_txt,       \* spades_duds.txt: [exists, content]
    disk,           \* per gene: the <gene>_spades directory, its K*
                    \* subdirectories, its contigs.fasta, and the flattened
                    \* <gene>/<gene>_contigs.fasta
    literal,        \* the file at the unformatted path
                    \* "{}/{}_spades/contigs.fasta" that line 110 stats
    pc,             \* where the process is
    path,           \* the branch main took at line 136
    genes,          \* spades_initial: genes (line 37)
    spades_failed,  \* spades_initial: the list it returns
    initial_ok,     \* spades_initial: spades_successful
    redo_params,    \* rerun_spades: cov_cutoff and cpu as called
    redo_genes,     \* rerun_spades: genes (line 60)
    genes_redos,    \* rerun_spades: genes_redos
    spades_duds,    \* rerun_spades: spades_duds
    redo_ok,        \* rerun_spades: spades_successful
    redo_failed,    \* rerun_spades: spades_failed
    invocations,    \* every subprocess.call so far: [pass, cmd, exitcode]
    running,        \* external invocations not yet returned
    calls,          \* calls of spades_initial and of rerun_spades so far
    exit_status,    \* the status the process exited with, -1 before it exits
    call,           \* make_spades_cmd called on its own: the arguments
    spades_cmd      \* make_spades_cmd called on its own: the result

vars == <<args, genelist_txt, failed_txt, redo_cmds, duds_txt, disk, literal,
          pc, path, genes, spades_failed, initial_ok, redo_params,
          redo_genes, genes_redos, spades_duds, redo_ok, redo_failed,
          invocations, running, calls, exit_status, call, spades_cmd>>

\* The files of the working directory.
files == <<genelist_txt, failed_txt, redo_cmds, duds_txt, disk, literal>>
\* The locals of spades_initial.
initial_locals == <<genes, spades_failed, initial_ok>>
\* The locals of rerun_spades.
redo_locals == <<redo_params, redo_genes, genes_redos, spades_duds,
                 redo_ok, redo_failed>>
\* make_spades_cmd called on its own.
builder == <<call, spades_cmd>>

(***************************************************************************)
(* The environment: what the assembler may leave of a gene.                *)
(***************************************************************************)
NoDirectory ==
    [dir |-> FALSE, kdirs |-> {}, contigs |-> "absent", flat |-> "absent"]

\* No <gene>_spades directory at all; a directory with any set of K*
\* subdirectories and no result file; a directory with a result file,
\* empty or not.
AssemblerStates ==
    {NoDirectory}
    \cup {[dir |-> TRUE, kdirs |-> K, contigs |-> "absent", flat |-> "absent"] :
            K \in SUBSET Kmers}
    \cup {[dir |-> TRUE, kdirs |-> Kmers, contigs |-> c, flat |-> "absent"] :
            c \in {"empty", "nonempty"}}

\* The genes the assembler has a directory of its own for: the empty name
\* names no gene directory ("/_spades/contigs.fasta" and "_spades" are
\* taken not to exist).
OwnDirectory(names) == Range(names) \ {<<>>}

\* os.path.isfile("<gene>/<gene>_spades/contigs.fasta")
IsFile(gene) == disk[gene].contigs # "absent"

(***************************************************************************)
(* The command lines main may be started with, and the working directory   *)
(* it may be started in.                                                   *)
(***************************************************************************)
CommandLines ==
    [genelist : {"genelist.txt"}, cpu : {0, 4},
     cov_cutoff : {DefaultCovCutoff, 10},
     kvals : {None, Some(<<"21", "33">>)}, redos_only : BOOLEAN]

Fresh ==
    /\ pc = "main"
    /\ path = "none"
    /\ redo_cmds = [state |-> "absent", lines |-> <<>>]
    /\ duds_txt = [exists |-> FALSE, content |-> <<>>]
    /\ genes = <<>>
    /\ spades_failed = <<>>
    /\ initial_ok = <<>>
    /\ redo_params = [cov_cutoff |-> DefaultCovCutoff, cpu |-> None]
    /\ redo_genes = <<>>
    /\ genes_redos = <<>>
    /\ spades_duds = <<>>
    /\ redo_ok = <<>>
    /\ redo_failed = <<>>
    /\ invocations = <<>>
    /\ running = 0
    /\ calls = [initial |-> 0, redo |-> 0]
    /\ exit_status = -1
    /\ call = None
    /\ spades_cmd = <<>>

\* A first run: a gene list of up to MaxGenes lines, no assembly yet, and
\* failed_spades.txt absent or left by an earlier run.
InitFirstRun ==
    /\ args \in CommandLines
    /\ \E names \in SeqsOf(GeneNames, 0, MaxGenes) :
            genelist_txt = TextFile(names)
    /\ failed_txt \in {[exists |-> FALSE, content |-> <<>>],
                       [exists |-> TRUE, content |-> JoinLines(<<<<"h">>>>)]}
    /\ failed_txt.exists => ~args.redos_only
    /\ disk = [g \in GeneNames |-> NoDirectory]
    /\ literal \in FileStates
    /\ Fresh

\* A run with --redos_only after an earlier run that wrote its failure list
\* to failed_spades.txt (line 143) and left each of its genes in some state.
InitRedosOnly ==
    /\ args \in CommandLines
    /\ args.redos_only
    /\ genelist_txt = TextFile(<<<<"g">>>>)
    /\ \E names \in SeqsOf(GeneNames, 1, MaxGenes) :
        /\ failed_txt = [exists |-> TRUE, content |-> JoinLines(names)]
        /\ \E left \in [OwnDirectory(names) -> AssemblerStates] :
                disk = [g \in GeneNames |->
                            IF g \in DOMAIN left THEN left[g] ELSE NoDirectory]
    /\ literal \in FileStates
    /\ Fresh

Init == InitFirstRun \/ InitRedosOnly

(***************************************************************************)
(* main, lines 136-139: the choice of the pass to start with.              *)
(***************************************************************************)
\* Line 137: rerun_spades("failed_spades.txt"), with its defaults.
MainRedosOnly ==
    /\ pc = "main"
    /\ failed_txt.exists /\ args.redos_only
    /\ path' = "redos_only"
    /\ redo_params' = [cov_cutoff |-> DefaultCovCutoff, cpu |-> None]
    /\ calls' = [calls EXCEPT !.redo = @ + 1]
    /\ pc' = "redo_prepare"
    /\ UNCHANGED <<args, files, initial_locals, redo_genes, genes_redos,
                   spades_duds, redo_ok, redo_failed, invocations, running,
                   exit_status, builder>>

\* Line 139: spades_initial(args.genelist, cov_cutoff, cpu, kvals).
MainInitial ==
    /\ pc = "main"
    /\ ~(failed_txt.exists /\ args.redos_only)
    /\ path' = "normal"
    /\ calls' = [calls EXCEPT !.initial = @ + 1]
    /\ pc' = "initial_call"
    /\ UNCHANGED <<args, files, initial_locals, redo_locals, invocations,
                   running, exit_status, builder>>

(***************************************************************************)
(* spades_initial.                                                         *)
(***************************************************************************)
\* Lines 34-42: the gene list is read, the command is built and handed to
\* the shell (the removal of spades.log and the messages leave no trace in
\* the state).
InitialBegin ==
    /\ pc = "initial_call"
    /\ genes' = ReadGenes(genelist_txt)
    /\ invocations' = Append(invocations,
            [pass |-> "initial",
             cmd |-> make_spades_cmd(args.genelist, args.cov_cutoff,
                                     Some(args.cpu), TRUE, args.kvals),
             exitcode |-> -1])
    /\ running' = running + 1
    /\ pc' = "initial_wait"
    /\ UNCHANGED <<args, files, path, spades_failed, initial_ok, redo_locals,
                   calls, exit_status, builder>>

\* Line 42: subprocess.call returns.  The assembler has left every gene of
\* the list in some state, and the parallel utility returns some exit code.
InitialWait ==
    /\ pc = "initial_wait"
    /\ \E left \in [OwnDirectory(genes) -> AssemblerStates], code \in {0, 1} :
        /\ disk' = [g \in GeneNames |->
                        IF g \in DOMAIN left
                        THEN [left[g] EXCEPT !.flat = disk[g].flat]
                        ELSE disk[g]]
        /\ invocations' =
                [invocations EXCEPT ![Len(invocations)].exitcode = code]
    /\ running' = running - 1
    /\ pc' = "initial_classify"
    /\ UNCHANGED <<args, genelist_txt, failed_txt, redo_cmds, duds_txt,
                   literal, path, initial_locals, redo_locals, calls,
                   exit_status, builder>>

\* The loop of lines 50-56 with the failure list built the other way
\* round: each failed gene put in front of the list.
RECURSIVE InitialLoopPrepend(_, _)
InitialLoopPrepend(gs, acc) ==
    IF Len(gs) = 0 THEN acc
    ELSE IF IsFile(Head(gs))
    THEN InitialLoopPrepend(Tail(gs),
            [acc EXCEPT !.successful = Append(@, Head(gs))])
    ELSE InitialLoopPrepend(Tail(gs),
            [acc EXCEPT !.failed = <<Head(gs)>> \o @])

\* The loop of lines 50-56 over the genes gs, from the lists in acc.
RECURSIVE InitialLoop(_, _)
InitialLoop(gs, acc) ==
    IF Len(gs) = 0 THEN acc
    ELSE IF IsFile(Head(gs))
    THEN InitialLoop(Tail(gs),
            [acc EXCEPT !.successful = Append(@, Head(gs))])
    ELSE InitialLoop(Tail(gs),
            [acc EXCEPT !.failed = Append(@, Head(gs))])

\* shutil.copy of the result file of every gene of done to
\* <gene>/<gene>_contigs.fasta.
CopyContigs(done) ==
    [g \in GeneNames |->
        IF g \in Range(done) THEN [disk[g] EXCEPT !.flat = disk[g].contigs]
        ELSE disk[g]]

\* Lines 44-57: every gene is classified, whatever the exit code was, and
\* the failure list is returned.
InitialClassify ==
    /\ pc = "initial_classify"
    /\ LET r == InitialLoop(genes, [successful |-> <<>>, failed |-> <<>>])
       IN  /\ spades_failed' = r.failed
           /\ initial_ok' = r.successful
           /\ disk' = CopyContigs(r.successful)
    /\ pc' = "initial_returned"
    /\ UNCHANGED <<args, genelist_txt, failed_txt, redo_cmds, duds_txt,
                   literal, path, genes, redo_locals, invocations, running,
                   calls, exit_status, builder>>

(***************************************************************************)
(* main, lines 141-145: after the initial pass.                            *)
(***************************************************************************)
\* Line 141 is false: main ends, and the process exits with status 0.
MainNoFailures ==
    /\ pc = "initial_returned"
    /\ Len(spades_failed) = 0
    /\ pc' = "done"
    /\ exit_status' = 0
    /\ UNCHANGED <<args, files, path, initial_locals, redo_locals,
                   invocations, running, calls, builder>>

\* Lines 142-145: the failure list is written to failed_spades.txt and
\* rerun_spades("failed_spades.txt", cov_cutoff=args.cov_cutoff) is called.
MainPersistAndRedo ==
    /\ pc = "initial_returned"
    /\ Len(spades_failed) > 0
    /\ failed_txt' = [exists |-> TRUE, content |-> JoinLines(spades_failed)]
    /\ redo_params' = [cov_cutoff |-> args.cov_cutoff, cpu |-> None]
    /\ calls' = [calls EXCEPT !.redo = @ + 1]
    /\ pc' = "redo_prepare"
    /\ UNCHANGED <<args, genelist_txt, redo_cmds, duds_txt, disk, literal,
                   path, initial_locals, redo_genes, genes_redos, spades_duds,
                   redo_ok, redo_failed, invocations, running, exit_status,
                   builder>>

(***************************************************************************)
(* rerun_spades.                                                           *)
(***************************************************************************)
\* Lines 76-79: a gene with fewer than two k-mer directories is a dud.
IsDud(all_kmers) == Len(all_kmers) < 2

\* The loop of lines 72-86 over the genes gs, from the lists in acc.
\* os.listdir raises for a gene without a <gene>_spades directory, and the
\* exception ends the loop, rerun_spades and the process.
RECURSIVE RedoLoop(_, _, _)
RedoLoop(gs, cov_cutoff, acc) ==
    IF Len(gs) = 0 THEN acc
    ELSE IF ~disk[Head(gs)].dir THEN [acc EXCEPT !.raised = TRUE]
    ELSE IF IsDud(AllKmers(disk[Head(gs)].kdirs))
    THEN RedoLoop(Tail(gs), cov_cutoff,
            [acc EXCEPT !.duds = Append(@, Head(gs))])
    ELSE RedoLoop(Tail(gs), cov_cutoff,
            [acc EXCEPT
                !.redos = Append(@, Head(gs)),
                !.lines = Append(@, RestartCmd(Head(gs),
                                    disk[Head(gs)].kdirs, cov_cutoff))])

\* Lines 60-96: the gene list is read, the command file is opened (and so
\* emptied), written and closed, and the duds are written to
\* spades_duds.txt.  When os.listdir raises, the command file is left as
\* written so far and never closed by the function.
RerunPrepare ==
    /\ pc = "redo_prepare"
    /\ redo_genes' = ReadGenes(failed_txt.content)
    /\ LET r == RedoLoop(ReadGenes(failed_txt.content), redo_params.cov_cutoff,
                    [raised |-> FALSE, duds |-> <<>>, redos |-> <<>>,
                     lines |-> <<>>])
       IN  /\ genes_redos' = r.redos
           /\ spades_duds' = r.duds
           /\ IF r.raised
              THEN /\ redo_cmds' = [state |-> "open", lines |-> r.lines]
                   /\ pc' = "crashed"
                   /\ exit_status' = 1
                   /\ UNCHANGED duds_txt
              ELSE /\ redo_cmds' = [state |-> "closed", lines |-> r.lines]
                   /\ duds_txt' = [exists |-> TRUE,
                                   content |-> JoinLines(r.duds)]
                   /\ pc' = "redo_invoke"
                   /\ UNCHANGED exit_status
    /\ UNCHANGED <<args, genelist_txt, failed_txt, disk, literal, path,
                   initial_locals, redo_params, redo_ok, redo_failed,
                   invocations, running, calls, builder>>

\* Lines 98-100: the command that runs the command file is handed to the
\* shell.
RerunBegin ==
    /\ pc = "redo_invoke"
    /\ invocations' = Append(invocations,
            [pass |-> "redo", cmd |-> RedoSpadesCmd(redo_params.cpu),
             exitcode |-> -1])
    /\ running' = running + 1
    /\ pc' = "redo_wait"
    /\ UNCHANGED <<args, files, path, initial_locals, redo_locals, calls,
                   exit_status, builder>>

\* Line 100: subprocess.call returns.  The restarted assembler has left the
\* result file of every gene of the command file in some state.
RerunWait ==
    /\ pc = "redo_wait"
    /\ \E left \in [Range(genes_redos) -> FileStates], code \in {0, 1} :
        /\ disk' = [g \in GeneNames |->
                        IF g \in DOMAIN left
                        THEN [disk[g] EXCEPT !.contigs = left[g]]
                        ELSE disk[g]]
        /\ invocations' =
                [invocations EXCEPT ![Len(invocations)].exitcode = code]
    /\ running' = running - 1
    /\ pc' = "redo_classify"
    /\ UNCHANGED <<args, genelist_txt, failed_txt, redo_cmds, duds_txt,
                   literal, path, initial_locals, redo_locals, calls,
                   exit_status, builder>>

\* Line 110: os.stat("{}/{}_spades/contigs.fasta").st_size > 0, of the path
\* as written, whatever the gene: "raises" when no file has that name.
StatSize(gene) ==
    IF literal = "absent" THEN "raises"
    ELSE IF literal = "nonempty" THEN "positive"
    ELSE "zero"

\* The loop of lines 107-120 over the genes gs, from the lists in acc.
RECURSIVE ReclassifyLoop(_, _)
ReclassifyLoop(gs, acc) ==
    IF Len(gs) = 0 THEN acc
    ELSE IF ~IsFile(Head(gs))
    THEN ReclassifyLoop(Tail(gs), [acc EXCEPT !.failed = Append(@, Head(gs))])
    ELSE IF StatSize(Head(gs)) = "raises" THEN [acc EXCEPT !.raised = TRUE]
    ELSE IF StatSize(Head(gs)) = "positive"
    THEN ReclassifyLoop(Tail(gs),
            [acc EXCEPT !.successful = Append(@, Head(gs))])
    ELSE ReclassifyLoop(Tail(gs), [acc EXCEPT !.failed = Append(@, Head(gs))])

\* Lines 104-121: every retried gene is classified, whatever the exit code
\* was, and the failure list and the dud list are returned; or os.stat
\* raises, which ends rerun_spades and the process.
RerunClassify ==
    /\ pc = "redo_classify"
    /\ LET r == ReclassifyLoop(genes_redos,
                    [raised |-> FALSE, successful |-> <<>>, failed |-> <<>>])
       IN  /\ redo_ok' = r.successful
           /\ redo_failed' = r.failed
           /\ disk' = CopyContigs(r.successful)
           /\ IF r.raised
              THEN pc' = "crashed" /\ exit_status' = 1
              ELSE pc' = "redo_returned" /\ UNCHANGED exit_status
    /\ UNCHANGED <<args, genelist_txt, failed_txt, redo_cmds, duds_txt,
                   literal, path, initial_locals, redo_params, redo_genes,
                   genes_redos, spades_duds, invocations, running, calls,
                   builder>>

(***************************************************************************)
(* main, after the redo pass.                                              *)
(***************************************************************************)
\* Line 137: on the --redos_only branch the pair rerun_spades returns is
\* bound to spades_failed and main ends: the process exits with status 0.
MainRedosOnlyEnd ==
    /\ pc = "redo_returned"
    /\ path = "redos_only"
    /\ pc' = "done"
    /\ exit_status' = 0
    /\ UNCHANGED <<args, files, path, initial_locals, redo_locals,
                   invocations, running, calls, builder>>

\* The status main ends with after the redo pass of line 145 has returned
\* failed (lines 146-149): sys.exit(1) unless the failure list is empty.
StatusAfterRedo(failed) == IF Len(failed) = 0 THEN 0 ELSE 1

\* Lines 146-149 with the redo pass repeated while genes remain failed.
MainRedoEndRetry ==
    /\ pc = "redo_returned"
    /\ path = "normal"
    /\ IF Len(redo_failed) = 0
       THEN /\ pc' = "done"
            /\ exit_status' = 0
            /\ UNCHANGED calls
       ELSE /\ pc' = "redo_prepare"
            /\ calls' = [calls EXCEPT !.redo = @ + 1]
            /\ UNCHANGED exit_status
    /\ UNCHANGED <<args, files, path, initial_locals, redo_locals,
                   invocations, running, builder>>

\* Lines 146-149.
MainRedoEnd ==
    /\ pc = "redo_returned"
    /\ path = "normal"
    /\ pc' = "done"
    /\ exit_status' = StatusAfterRedo(redo_failed)
    /\ UNCHANGED <<args, files, path, initial_locals, redo_locals,
                   invocations, running, calls, builder>>

Next ==
    \/ MainRedosOnly
    \/ MainInitial
    \/ InitialBegin
    \/ InitialWait
    \/ InitialClassify
    \/ MainNoFailures
    \/ MainPersistAndRedo
    \/ RerunPrepare
    \/ RerunBegin
    \/ RerunWait
    \/ RerunClassify
    \/ MainRedosOnlyEnd
    \/ MainRedoEnd

Spec == Init /\ [][Next]_vars

(***************************************************************************)
(* make_spades_cmd on its own: every combination of a few arguments.       *)
(***************************************************************************)
BuilderCalls ==
    [genelist : {"genelist.txt", "failed_spades.txt"},
     cov_cutoff : {DefaultCovCutoff, 10},
     cpu : {None, Some(0), Some(4)},
     paired : BOOLEAN,
     kvals : {None, Some(<<>>), Some(<<"">>), Some(<<"21">>),
              Some(<<"21", "33">>), Some(<<"33", "21">>)}]

InitCmd ==
    /\ call \in {Some(c) : c \in BuilderCalls}
    /\ spades_cmd = <<>>
    /\ pc = "build"
    /\ args = [genelist |-> "genelist.txt", cpu |-> 0,
               cov_cutoff |-> DefaultCovCutoff, kvals |-> None,
               redos_only |-> FALSE]
    /\ genelist_txt = <<>>
    /\ failed_txt = [exists |-> FALSE, content |-> <<>>]
    /\ redo_cmds = [state |-> "absent", lines |-> <<>>]
    /\ duds_txt = [exists |-> FALSE, content |-> <<>>]
    /\ disk = [g \in GeneNames |-> NoDirectory]
    /\ literal = "absent"
    /\ path = "none"
    /\ genes = <<>>
    /\ spades_failed = <<>>
    /\ initial_ok = <<>>
    /\ redo_params = [cov_cutoff |-> DefaultCovCutoff, cpu |-> None]
    /\ redo_genes = <<>>
    /\ genes_redos = <<>>
    /\ spades_duds = <<>>
    /\ redo_ok = <<>>
    /\ redo_failed = <<>>
    /\ invocations = <<>>
    /\ running = 0
    /\ calls = [initial |-> 0, redo |-> 0]
    /\ exit_status = -1

BuildCmd ==
    /\ pc = "build"
    /\ spades_cmd' = make_spades_cmd(call.val.genelist, call.val.cov_cutoff,
                                     call.val.cpu, call.val.paired,
                                     call.val.kvals)
    /\ pc' = "built"
    /\ UNCHANGED <<args, files, path, initial_locals, redo_locals,
                   invocations, running, calls, exit_status, call>>

NextCmd == BuildCmd

SpecCmd == InitCmd /\ [][NextCmd]_vars

(***************************************************************************)
(* What the claims speak of.                                               *)
(***************************************************************************)
\* The gene has a result file <gene>/<gene>_spades/contigs.fasta.
HasResult(g) == disk[g].contigs # "absent"
LacksResult(g) == disk[g].contigs = "absent"

\* The gene's result file exists and is not empty.
HasNonEmptyResult(g) == disk[g].contigs = "nonempty"

\* The gene has fewer than two K* subdirectories.
FewKmers(g) == Cardinality(disk[g].kdirs) < 2
EnoughKmers(g) == Cardinality(disk[g].kdirs) >= 2

\* rerun_spades has been called and has ended, by returning or by raising.
RerunEnded ==
    calls.redo > 0 /\ pc \in {"redo_returned", "done", "crashed"}

\* The genes main handed to the redo pass.
HandedToRedo ==
    IF path = "normal" THEN Range(spades_failed) ELSE Range(redo_genes)

\* The number of invocations that have not returned.
Unreturned == Cardinality({i \in DOMAIN invocations :
                                invocations[i].exitcode = -1})

\* The largest member of a non-empty set of integers.
Largest(S) == CHOOSE x \in S : \A y \in S : y <= x

\* The members of S in ascending order, as the decimal strings of a -k list.
RECURSIVE Ascending(_)
Ascending(S) ==
    IF S = {} THEN <<>>
    ELSE Append(Ascending(S \ {Largest(S)}), Dec(Largest(S)))

(***************************************************************************)
(* The claims.                                                             *)
(***************************************************************************)
\* C1: when main has ended, the exit status is 1 if some gene handed to the
\* redo pass still has no result file (retried in vain, or a dud), and 0 if
\* no gene failed the initial pass or every gene handed to the redo pass
\* has a result file; on the normal path and with --redos_only alike.
\* Stated of the runs that end by returning from main or by sys.exit: those
\* an exception ends are the matter of C2 and C5.
C1_ExitStatus ==
    pc = "done" =>
        /\ (calls.redo > 0 /\ \E g \in HandedToRedo : LacksResult(g))
                => exit_status = 1
        /\ (\/ path = "normal" /\ calls.redo = 0
            \/ calls.redo > 0 /\ \A g \in HandedToRedo : HasResult(g))
                => exit_status = 0

\* The redo run is over: the parallel utility has returned from the command
\* file and rerun_spades has ended.
RedoRunOver ==
    /\ RerunEnded
    /\ \E i \in DOMAIN invocations :
            invocations[i].pass = "redo" /\ invocations[i].exitcode # -1

\* C2: after the redo run, every retried gene is in the successful list if
\* and only if its own result file exists and is not empty, its result is
\* then copied to <gene>/<gene>_contigs.fasta, and it is in the failure list
\* otherwise; nothing else decides.
C2_RedoClassification ==
    RedoRunOver =>
        \A g \in Range(genes_redos) :
            /\ g \in Range(redo_ok) <=> HasNonEmptyResult(g)
            /\ g \in Range(redo_failed) <=> ~HasNonEmptyResult(g)
            /\ HasNonEmptyResult(g) => disk[g].flat = "nonempty"

\* C3: when rerun_spades has ended, every gene of its list is in exactly one
\* of successful, failed and dud; the dud list is the genes with fewer than
\* two K* subdirectories, in order; no dud has a restart command or is in
\* the failure list.
C3_ThreeClasses ==
    RerunEnded =>
        /\ \A g \in Range(redo_genes) :
                Cardinality({c \in {"successful", "failed", "dud"} :
                    \/ c = "successful" /\ g \in Range(redo_ok)
                    \/ c = "failed" /\ g \in Range(redo_failed)
                    \/ c = "dud" /\ g \in Range(spades_duds)}) = 1
        /\ spades_duds = SelectSeq(redo_genes, FewKmers)
        /\ \A i \in DOMAIN redo_cmds.lines :
                redo_cmds.lines[i].gene \notin Range(spades_duds)
        /\ Range(spades_duds) \cap Range(redo_failed) = {}

\* C4: when spades_initial has returned, its failure list is the genes of
\* the list without a result file, in list order, the others are the
\* successful ones, and the result file has been copied to
\* <gene>/<gene>_contigs.fasta for the genes that have one and for no other;
\* the exit code of the parallel utility plays no part.
C4_InitialClassification ==
    pc = "initial_returned" =>
        /\ spades_failed = SelectSeq(genes, LacksResult)
        /\ initial_ok = SelectSeq(genes, HasResult)
        /\ \A g \in GeneNames :
                disk[g].flat = IF g \in Range(genes) /\ HasResult(g)
                               THEN disk[g].contigs ELSE "absent"

\* C4 happens: the parallel utility returned a non-zero exit code, and of
\* two genes the first has a result file, which was copied, and the second
\* has none and is the failure list.
C4_Witness ==
    /\ pc = "initial_returned"
    /\ invocations[1].exitcode = 1
    /\ genes = << <<"g">>, <<"h">> >>
    /\ spades_failed = << <<"h">> >>
    /\ disk[<<"g">>].flat = "nonempty"

\* C5: no state of a gene and no exit code makes spades_initial or
\* rerun_spades end with an unhandled error: the process never ends by an
\* exception, and each function, when it has returned, has classified every
\* gene of its list.
C5_NeverAborts ==
    /\ pc # "crashed"
    /\ pc = "initial_returned" =>
            Range(genes) = Range(spades_failed) \cup Range(initial_ok)
    /\ pc = "redo_returned" =>
            Range(redo_genes) =
                Range(redo_ok) \cup Range(redo_failed) \cup Range(spades_duds)

\* C6: the initial pass and the redo pass are each started at most once and
\* the parallel utility is invoked at most twice, one invocation at a time;
\* with failed_spades.txt and --redos_only the initial pass is not run and
\* the redo pass is run once; otherwise the initial pass is run once and the
\* redo pass starts only after it has finished and has failures, and has
\* been run once if and only if it had failures by the time main ends.
C6_PassOrder ==
    /\ calls.initial <= 1 /\ calls.redo <= 1
    /\ Len(invocations) <= calls.initial + calls.redo
    /\ running = Unreturned /\ running <= 1
    /\ \A i \in DOMAIN invocations :
            invocations[i].pass = "redo" =>
                \A j \in 1..(i - 1) : invocations[j].exitcode # -1
    /\ path = "redos_only" => calls.initial = 0 /\ calls.redo = 1
    /\ path = "normal" => calls.initial = 1
    /\ (path = "normal" /\ calls.redo = 0)
            => ~(failed_txt.exists /\ args.redos_only)
    /\ (path = "normal" /\ calls.redo = 1) =>
            /\ pc \notin {"initial_call", "initial_wait", "initial_classify"}
            /\ Len(spades_failed) > 0
    /\ (path = "normal" /\ pc = "done") =>
            calls.redo = IF Len(spades_failed) > 0 THEN 1 ELSE 0

\* C6 happens: a run on the normal path has ended after both passes and two
\* invocations, with a gene still failed and a dud that were not retried.
C6_Witness ==
    /\ pc = "done"
    /\ path = "normal"
    /\ calls = [initial |-> 1, redo |-> 1]
    /\ Len(invocations) = 2
    /\ Len(redo_failed) > 0
    /\ Len(spades_duds) > 0

\* C7: on the normal path, once the redo pass has read failed_spades.txt its
\* gene list is the failure list of the initial pass, and the file holds
\* that list from then on; without failures the file is not written.
C7_FailureListRoundTrip ==
    /\ (path = "normal" /\ calls.redo > 0 /\ pc # "redo_prepare")
            => redo_genes = spades_failed
    /\ (path = "normal" /\ calls.redo > 0)
            => failed_txt = [exists |-> TRUE,
                             content |-> JoinLines(spades_failed)]
    /\ (path = "normal" /\ calls.redo = 0)
            => failed_txt \in {[exists |-> FALSE, content |-> <<>>],
                               [exists |-> TRUE,
                                content |-> JoinLines(<<<<"h">>>>)]}

\* C8: every command that invokes the parallel utility carries -j n when
\* --cpu n is given with n > 0 and no -j otherwise, and every assembler
\* command, templated or written to redo_spades_commands.txt, carries
\* --cov-cutoff with the value of --cov_cutoff.
C8_UserValuesReachCommands ==
    /\ \A i \in DOMAIN invocations :
            IF args.cpu > 0
            THEN HasFragment(invocations[i].cmd, "-j", Dec(args.cpu))
            ELSE ~HasToken(invocations[i].cmd, "-j")
    /\ \A i \in DOMAIN invocations :
            invocations[i].pass = "initial" =>
                HasFragment(invocations[i].cmd, "--cov-cutoff",
                            Dec(args.cov_cutoff))
    /\ \A i \in DOMAIN redo_cmds.lines :
            HasFragment(redo_cmds.lines[i].argv, "--cov-cutoff",
                        Dec(args.cov_cutoff))

\* C9: the command make_spades_cmd builds holds -j <cpu> if and only if cpu
\* is given and not zero, -k <kvals joined by commas> if and only if kvals
\* is a non-empty list, always --cov-cutoff <cov_cutoff> and --threads 1,
\* exactly one of --12 (paired) and -s (unpaired), and the gene-list file
\* after "::::".
C9_CommandFragments ==
    pc = "built" =>
        LET c == call.val IN
        /\ IF c.cpu.some /\ c.cpu.val # 0
           THEN HasFragment(spades_cmd, "-j", Dec(c.cpu.val))
           ELSE ~HasToken(spades_cmd, "-j")
        /\ IF c.kvals.some /\ Len(c.kvals.val) > 0
           THEN HasFragment(spades_cmd, "-k", JoinStr(",", c.kvals.val))
           ELSE ~HasToken(spades_cmd, "-k")
        /\ HasFragment(spades_cmd, "--cov-cutoff", Dec(c.cov_cutoff))
        /\ HasFragment(spades_cmd, "--threads", "1")
        /\ HasToken(spades_cmd, "--12") <=> c.paired
        /\ HasToken(spades_cmd, "-s") <=> ~c.paired
        /\ HasFragment(spades_cmd, "::::", c.genelist)

\* C10: once rerun_spades is past its loop over the genes, the command file
\* holds one restart command for every gene of the list with at least two
\* k-mer directories, in list order, whose -k list is the gene's k-mer
\* values without the largest, ascending, and whose --restart-from is "k"
\* and the largest of those; and the file is closed while the parallel
\* utility runs it.
C10_RestartCommands ==
    (calls.redo > 0 /\ pc # "redo_prepare") =>
        LET retried == SelectSeq(redo_genes, EnoughKmers) IN
        /\ Len(redo_cmds.lines) = Len(retried)
        /\ \A i \in DOMAIN redo_cmds.lines :
            LET line == redo_cmds.lines[i]
                S == disk[line.gene].kdirs
                rest == S \ {Largest(S)}
            IN  /\ i <= Len(retried) /\ line.gene = retried[i]
                /\ HasFragment(line.argv, "-k", JoinStr(",", Ascending(rest)))
                /\ HasFragment(line.argv, "--restart-from",
                               "k" \o Dec(Largest(rest)))
                /\ Largest(rest) < Largest(S)
        /\ pc = "redo_wait" => redo_cmds.state = "closed"

(***************************************************************************)
(* What remains of C3, C7 and C10 on the runs their counterexamples leave  *)
(* out.                                                                    *)
(***************************************************************************)
\* The three classes and the dud list, when rerun_spades has returned.
ThreeClassesWhenReturned ==
    (calls.redo > 0 /\ pc \in {"redo_returned", "done"}) =>
        /\ \A g \in Range(redo_genes) :
                Cardinality({c \in {"successful", "failed", "dud"} :
                    \/ c = "successful" /\ g \in Range(redo_ok)
                    \/ c = "failed" /\ g \in Range(redo_failed)
                    \/ c = "dud" /\ g \in Range(spades_duds)}) = 1
        /\ spades_duds = SelectSeq(redo_genes, FewKmers)
        /\ \A i \in DOMAIN redo_cmds.lines :
                redo_cmds.lines[i].gene \notin Range(spades_duds)
        /\ Range(spades_duds) \cap Range(redo_failed) = {}

\* The restart commands, when the loop over the genes has ended without an
\* exception.
RestartCommandsWhenWritten ==
    (calls.redo > 0 /\ redo_cmds.state = "closed") =>
        LET retried == SelectSeq(redo_genes, EnoughKmers) IN
        /\ Len(redo_cmds.lines) = Len(retried)
        /\ \A i \in DOMAIN redo_cmds.lines :
            LET line == redo_cmds.lines[i]
                S == disk[line.gene].kdirs
                rest == S \ {Largest(S)}
            IN  /\ line.gene = retried[i]
                /\ HasFragment(line.argv, "-k", JoinStr(",", Ascending(rest)))
                /\ HasFragment(line.argv, "--restart-from",
                               "k" \o Dec(Largest(rest)))
                /\ Largest(rest) < Largest(S)

\* The failure list read back, when its last name is not the empty name.
RoundTripWithoutBlankLast ==
    (/\ path = "normal" /\ calls.redo > 0 /\ pc # "redo_prepare"
     /\ spades_failed[Len(spades_failed)] # <<>>)
        => redo_genes = spades_failed

=============================================================================
